---- MODULE Spec2Model ----
(***************************************************************************)
(* Model of scripts/python/etl_processor.py: the chunked                   *)
(* scan -> transform -> hash -> load pipeline (run_etl and its helpers).   *)
(*                                                                         *)
(* Text is modelled as a sequence of one-character strings so that         *)
(* str.strip(), "|".join(...) and numeric parsing are computed rather than *)
(* assumed.  Integers are carried as decimal digit text, which lets the    *)
(* Int32 / Int64 range checks of the casts be evaluated exactly.           *)
(***************************************************************************)
EXTENDS Integers, Sequences, FiniteSets, TLC

(***************************************************************************)
(* Bounds of the model.                                                    *)
(***************************************************************************)
MaxRows == 3
MaxChunk == 2
MaxRerunRows == 2

(***************************************************************************)
(* State.                                                                  *)
(***************************************************************************)
VARIABLES
    source,         \* the records of the input file
    table,          \* staging_transactions: the committed rows
    pending,        \* rows written in the open transaction, not committed
    pc,             \* position of the program
    run,            \* number of invocations of main so far
    process_id, source_hash, source_system, chunk_size,   \* arguments of run_etl
    lazy_frame,     \* TRUE once scan_input_file has returned
    conn,           \* "none", "open" or "closed"
    connects,       \* connections opened by this invocation
    offset, metrics, chunk, rows,                         \* locals of run_etl
    stdout,         \* PROGRESS lines printed by this invocation
    summary,        \* the JSON summary printed by main, or << >>
    error,          \* the exception that ended this invocation, or "none"
    requests,       \* offsets passed to lazy_frame.slice by this invocation
    commits,        \* number of conn.commit() calls of this invocation
    start,          \* number of rows in the table when the invocation began
    hashed          \* (record, source_system, digests) computed by build_copy_rows

vars ==
    << source, table, pending, pc, run, process_id, source_hash, source_system,
       chunk_size, lazy_frame, conn, connects, offset, metrics, chunk, rows,
       stdout, summary, error, requests, commits, start, hashed >>

args == << process_id, source_hash, source_system, chunk_size >>

(***************************************************************************)
(* Column lists (module constants of etl_processor.py).                    *)
(***************************************************************************)
CRITICAL_COLUMNS ==
    << "CodFondo", "Identificacion", "CodDireccion", "Valor", "Unidades",
       "ObjetivoInversion", "Asesor", "Oficina", "Bloqueo", "DiasPermanencia" >>

DATE_COLUMNS ==
    << "FechaConstitucion", "FechaVencimiento", "FechaVtoTeorica",
       "FechaUltimaCancelacion" >>

SOURCE_COLUMNS ==
    << "CodFondo", "CodClase", "NumeroCuentaInversion", "TipoIdentificacion",
       "Identificacion", "CodDireccion", "Valor", "Unidades",
       "FechaConstitucion", "FechaVencimiento", "ObjetivoInversion", "Asesor",
       "Referido", "CanalApertura", "Oficina", "OficinaApertura",
       "OficinaActual", "Bloqueo", "IdCausalBloqueo", "DiasPermanencia",
       "FechaVtoTeorica", "FechaUltimaCancelacion" >>

\* Targets of the casts in transform_chunk.
INT32_COLUMNS ==
    { "CodFondo", "Identificacion", "CodDireccion", "Asesor", "Oficina",
      "Bloqueo", "OficinaApertura", "OficinaActual", "IdCausalBloqueo" }

INT64_COLUMNS == { "Unidades", "ObjetivoInversion", "DiasPermanencia" }

DECIMAL_COLUMNS == { "Valor" }

Range(seq) == { seq[i] : i \in 1..Len(seq) }

ColumnSet == Range(SOURCE_COLUMNS)

(***************************************************************************)
(* Text helpers.                                                           *)
(***************************************************************************)
DigitChars == << "0", "1", "2", "3", "4", "5", "6", "7", "8", "9" >>

IsDigit(c) == c \in Range(DigitChars)

DigitVal(c) == (CHOOSE i \in 1..Len(DigitChars) : DigitChars[i] = c) - 1

AllDigits(s) == \A i \in 1..Len(s) : IsDigit(s[i])

\* Zero-padded decimal text, as the {:02d} / {:04d} fields of isoformat().
RECURSIVE PadText(_, _)
PadText(n, width) ==
    IF width = 0 THEN << >>
    ELSE PadText(n \div Len(DigitChars), width - 1) \o << DigitChars[(n % Len(DigitChars)) + 1] >>

\* Value of a digit text (used on short texts only: year, month, day).
RECURSIVE TextNat(_)
TextNat(s) ==
    IF s = << >> THEN 0
    ELSE TextNat(SubSeq(s, 1, Len(s) - 1)) * Len(DigitChars) + DigitVal(s[Len(s)])

RECURSIVE StripLeft(_)
StripLeft(s) ==
    IF s # << >> /\ Head(s) = " " THEN StripLeft(Tail(s)) ELSE s

RECURSIVE StripRight(_)
StripRight(s) ==
    IF s # << >> /\ s[Len(s)] = " " THEN StripRight(SubSeq(s, 1, Len(s) - 1)) ELSE s

\* str.strip()
Strip(s) == StripRight(StripLeft(s))

RECURSIVE DropLeadingZeros(_)
DropLeadingZeros(s) ==
    IF Len(s) > 1 /\ Head(s) = "0" THEN DropLeadingZeros(Tail(s)) ELSE s

\* Comparison of two digit texts of equal length.
RECURSIVE DigitsLeq(_, _)
DigitsLeq(a, b) ==
    IF a = << >> THEN TRUE
    ELSE IF DigitVal(Head(a)) < DigitVal(Head(b)) THEN TRUE
    ELSE IF DigitVal(Head(a)) > DigitVal(Head(b)) THEN FALSE
    ELSE DigitsLeq(Tail(a), Tail(b))

\* magnitude text a <= magnitude text b (both without leading zeros)
MagnitudeLeq(a, b) ==
    \/ Len(a) < Len(b)
    \/ Len(a) = Len(b) /\ DigitsLeq(a, b)

IsNegative(s) == s # << >> /\ Head(s) = "-"

Magnitude(s) == IF IsNegative(s) THEN Tail(s) ELSE s

(***************************************************************************)
(* Values of a cell.  t is the dynamic type; s carries text (the string,   *)
(* or the decimal digit text of a number); n carries the hundredths of a   *)
(* Float / Decimal, or the yyyymmdd number of a timestamp.                 *)
(***************************************************************************)
None == [t |-> "none", s |-> << >>, n |-> 0]

Str(s) == [t |-> "str", s |-> s, n |-> 0]

IntV(s) == [t |-> "int", s |-> s, n |-> 0]

Float(s, n) == [t |-> "float", s |-> s, n |-> n]

Dec(s, n) == [t |-> "dec", s |-> s, n |-> n]

Dt(n) == [t |-> "dt", s |-> << >>, n |-> n]

IsNull(v) == v.t = "none"

\* Limits of the integer targets, as digit text.
Int32Max == << "2", "1", "4", "7", "4", "8", "3", "6", "4", "7" >>

Int32MinMagnitude == << "2", "1", "4", "7", "4", "8", "3", "6", "4", "8" >>

Int64Max ==
    << "9", "2", "2", "3", "3", "7", "2", "0", "3", "6", "8", "5", "4", "7", "7", "5", "8", "0", "7" >>

Int64MinMagnitude ==
    << "9", "2", "2", "3", "3", "7", "2", "0", "3", "6", "8", "5", "4", "7", "7", "5", "8", "0", "8" >>

\* Largest integer part of a Decimal(18, 2): 16 digits.
DecimalIntMax ==
    << "9", "9", "9", "9", "9", "9", "9", "9", "9", "9", "9", "9", "9", "9", "9", "9" >>

\* An integer literal: optional sign, at least one digit.
IsIntText(s) == Magnitude(s) # << >> /\ AllDigits(Magnitude(s))

\* The parsed integer, printed back canonically (no leading zeros, no -0).
CanonInt(s) ==
    LET m == DropLeadingZeros(Magnitude(s))
    IN  IF IsNegative(s) /\ m # << "0" >> THEN << "-" >> \o m ELSE m

InIntRange(s, maxText, minMagnitude) ==
    IF IsNegative(s) THEN MagnitudeLeq(Magnitude(s), minMagnitude)
    ELSE MagnitudeLeq(s, maxText)

\* cast(pl.Int32 / pl.Int64, strict=False) of one value: a value that
\* cannot be represented becomes null.
CastInt(v, maxText, minMagnitude) ==
    LET txt == IF v.t \in {"int", "float", "dec"} THEN v.s
               ELSE IF v.t = "str" /\ IsIntText(v.s) THEN CanonInt(v.s)
               ELSE << >>
    IN  IF txt # << >> /\ InIntRange(txt, maxText, minMagnitude)
        THEN IntV(txt) ELSE None

\* A decimal literal "digits.dd" (two decimals), "digits.d" or an integer.
HasCents(s) == Len(s) >= 4 /\ s[Len(s) - 2] = "."

HasTenths(s) == Len(s) >= 3 /\ s[Len(s) - 1] = "."

\* cast(pl.Decimal(18, 2), strict=False) of one value.
CastDecimal(v) ==
    LET parsed ==
            IF v.t = "int" THEN Dec(v.s, 0)
            ELSE IF v.t \in {"float", "dec"} THEN Dec(v.s, v.n)
            ELSE IF v.t = "str" /\ HasCents(v.s)
                    /\ IsIntText(SubSeq(v.s, 1, Len(v.s) - 3))
                    /\ AllDigits(SubSeq(v.s, Len(v.s) - 1, Len(v.s)))
                 THEN Dec(CanonInt(SubSeq(v.s, 1, Len(v.s) - 3)),
                          TextNat(SubSeq(v.s, Len(v.s) - 1, Len(v.s))))
            ELSE IF v.t = "str" /\ HasTenths(v.s)
                    /\ IsIntText(SubSeq(v.s, 1, Len(v.s) - 2))
                    /\ IsDigit(v.s[Len(v.s)])
                 THEN Dec(CanonInt(SubSeq(v.s, 1, Len(v.s) - 2)),
                          DigitVal(v.s[Len(v.s)]) * Len(DigitChars))
            ELSE IF v.t = "str" /\ IsIntText(v.s) THEN Dec(CanonInt(v.s), 0)
            ELSE None
    IN  IF ~IsNull(parsed) /\ MagnitudeLeq(Magnitude(parsed.s), DecimalIntMax)
        THEN parsed ELSE None

\* datetime.isoformat() of a midnight timestamp: YYYY-MM-DDTHH:MM:SS
IsoFormat(v) ==
    PadText(v.n \div 10000, 4) \o << "-" >> \o PadText((v.n \div 100) % 100, 2)
        \o << "-" >> \o PadText(v.n % 100, 2)
        \o << "T", "0", "0", ":", "0", "0", ":", "0", "0" >>

\* cast(pl.Utf8) of one value.
CastUtf8(v) ==
    IF v.t = "dt"
    THEN PadText(v.n \div 10000, 4) \o << "-" >> \o PadText((v.n \div 100) % 100, 2)
            \o << "-" >> \o PadText(v.n % 100, 2)
            \o << " ", "0", "0", ":", "0", "0", ":", "0", "0" >>
    ELSE IF v.t \in {"float", "dec"} THEN v.s \o << "." >> \o PadText(v.n, 2)
    ELSE v.s

\* str.strptime(pl.Datetime, strict=False, exact=False): a text that starts
\* with a valid YYYY-MM-DD date parses, anything else becomes null.
StrpTime(s) ==
    IF /\ Len(s) >= 10
       /\ AllDigits(SubSeq(s, 1, 4)) /\ s[5] = "-"
       /\ AllDigits(SubSeq(s, 6, 7)) /\ s[8] = "-"
       /\ AllDigits(SubSeq(s, 9, 10))
       /\ TextNat(SubSeq(s, 6, 7)) \in 1..12
       /\ TextNat(SubSeq(s, 9, 10)) \in 1..31
    THEN Dt(TextNat(SubSeq(s, 1, 4)) * 10000 + TextNat(SubSeq(s, 6, 7)) * 100
                + TextNat(SubSeq(s, 9, 10)))
    ELSE None

\* Op applied to the value of x (x is evaluated once, whatever Op does with it).
Eval(Op(_), x) == CHOOSE y \in { Op(v) : v \in { x } } : TRUE

\* The pl.when(is_null).then(None).otherwise(cast.strptime) expression.
ParseDate(v) == IF IsNull(v) THEN None ELSE Eval(StrpTime, CastUtf8(v))

InSeq(x, seq) == \E i \in 1..Len(seq) : seq[i] = x

\* The with_columns cast list of transform_chunk applied to one record.
CastRecord(r) ==
    [c \in ColumnSet |->
        IF c \in INT32_COLUMNS THEN CastInt(r[c], Int32Max, Int32MinMagnitude)
        ELSE IF c \in INT64_COLUMNS THEN CastInt(r[c], Int64Max, Int64MinMagnitude)
        ELSE IF c \in DECIMAL_COLUMNS THEN CastDecimal(r[c])
        ELSE r[c]]

\* The loop over DATE_COLUMNS of transform_chunk applied to one record.
ParseDates(r) ==
    [c \in ColumnSet |-> IF InSeq(c, DATE_COLUMNS) THEN ParseDate(r[c]) ELSE r[c]]

NoNullIn(r, cols) == \A i \in 1..Len(cols) : ~IsNull(r[cols[i]])

\* DataFrame.drop_nulls(subset): keeps, in order, the rows without a null there.
drop_nulls(df, cols) == SelectSeq(df, LAMBDA r : NoNullIn(r, cols))

MapRows(df, Op(_)) == [i \in 1..Len(df) |-> Eval(Op, df[i])]

\* Variant: the records are not filtered again after the casts.
transform_chunk_single_filter(df) ==
    MapRows(MapRows(drop_nulls(df, CRITICAL_COLUMNS), CastRecord), ParseDates)

transform_chunk(df) ==
    MapRows(
        drop_nulls(MapRows(drop_nulls(df, CRITICAL_COLUMNS), CastRecord),
                   CRITICAL_COLUMNS),
        ParseDates)

(***************************************************************************)
(* Hasher.                                                                 *)
(***************************************************************************)
normalize_value(v) ==
    IF IsNull(v) THEN << >>
    ELSE IF v.t = "dt" THEN IsoFormat(v)
    ELSE Strip(CastUtf8(v))

\* "|".join(parts) for a sequence of texts
RECURSIVE JoinTexts(_)
JoinTexts(parts) ==
    IF parts = << >> THEN << >>
    ELSE IF Len(parts) = 1 THEN parts[1]
    ELSE parts[1] \o << "|" >> \o JoinTexts(Tail(parts))

Join(parts) == Eval(JoinTexts, parts)

\* SHA-256 is taken as injective on the canonical text: the digest of a text
\* is represented by that text.
Sha256Hex(text) == text

\* canonical = "|".join(normalize_value(v) for v in values); sha256(canonical)
Canonical(values) == Join([i \in 1..Len(values) |-> normalize_value(values[i])])

sha256_from_values(values) == Sha256Hex(Eval(Canonical, values))

\* Variant: the process identifier enters the business key.
business_key_with_process(record, system) ==
    << record["CodFondo"], record["NumeroCuentaInversion"], record["Identificacion"],
       record["CodDireccion"], record["FechaConstitucion"], Str(system),
       Str(<< process_id >>) >>

business_key(record, system) ==
    << record["CodFondo"], record["NumeroCuentaInversion"], record["Identificacion"],
       record["CodDireccion"], record["FechaConstitucion"], Str(system) >>

\* Variant: the source-system tag is left out of the payload.
payload_values_without_system(record, system) ==
    [i \in 1..Len(SOURCE_COLUMNS) |-> record[SOURCE_COLUMNS[i]]]

payload_values(record, system) ==
    [i \in 1..Len(SOURCE_COLUMNS) |-> record[SOURCE_COLUMNS[i]]] \o << Str(system) >>

\* One row of build_copy_rows: lineage columns, the two digests and the
\* 22 transformed fields (kept together under "fields").
copy_row(record, pid, shash, system) ==
    [ process_id |-> pid,
      source_hash |-> shash,
      source_system |-> system,
      transaction_id |-> sha256_from_values(business_key(record, system)),
      payload_hash |-> sha256_from_values(payload_values(record, system)),
      fields |-> record ]

build_copy_rows(df, pid, shash, system) ==
    MapRows(df, LAMBDA record : copy_row(record, pid, shash, system))

(***************************************************************************)
(* BulkLoader wire format.                                                 *)
(***************************************************************************)
\* csv.writer renders None as the empty field and everything else by str().
CsvField(v) == IF IsNull(v) THEN << >> ELSE CastUtf8(v)

\* COPY ... WITH (FORMAT CSV): an unquoted empty field is stored as NULL,
\* any other field as its text.
CopyCell(v) == IF CsvField(v) = << >> THEN None ELSE Str(CsvField(v))

StagingRow(row) == [row EXCEPT !.fields = [c \in ColumnSet |-> CopyCell(row.fields[c])]]

(***************************************************************************)
(* Inputs.                                                                 *)
(***************************************************************************)
\* A well-formed record whose only absent or uncoercible values sit in
\* non-mandatory fields.
RecBase ==
    [ CodFondo |-> IntV(<< "1", "0", "0" >>),
      CodClase |-> Str(<< "A" >>),
      NumeroCuentaInversion |-> Str(<< "N", "1" >>),
      TipoIdentificacion |-> Str(<< "C", "C" >>),
      Identificacion |-> IntV(<< "7" >>),
      CodDireccion |-> Str(<< "0", "5" >>),
      Valor |-> Float(<< "1", "2" >>, 50),
      Unidades |-> IntV(<< "3" >>),
      FechaConstitucion |-> Str(<< "2", "0", "2", "0", "-", "0", "1", "-", "0", "2" >>),
      FechaVencimiento |-> Dt(20300102),
      ObjetivoInversion |-> IntV(<< "1" >>),
      Asesor |-> IntV(<< "1", "0", "0", "0" >>),
      Referido |-> None,
      CanalApertura |-> Str(<< "W", "E", "B" >>),
      Oficina |-> IntV(<< "1" >>),
      OficinaApertura |-> Str(<< "n", "/", "a" >>),
      OficinaActual |-> None,
      Bloqueo |-> IntV(<< "0" >>),
      IdCausalBloqueo |-> IntV(Int32MinMagnitude),
      DiasPermanencia |-> IntV(<< "1", "0" >>),
      FechaVtoTeorica |-> Str(<< "2", "0", "2", "1", "-", "1", "3", "-", "0", "1" >>),
      FechaUltimaCancelacion |-> None ]

\* Differs from RecBase by surrounding whitespace and by "" instead of null.
RecSpaced == [RecBase EXCEPT !.CodClase = Str(<< " ", "A" >>), !.Referido = Str(<< >>)]

\* A mandatory field absent in the source.
RecNoHolder == [RecBase EXCEPT !.Identificacion = None]

\* A mandatory field out of the range of its target type.
RecBigFund == [RecBase EXCEPT !.CodFondo = IntV(Int32MinMagnitude)]

\* Two records whose texts contain the separator at different places.
RecSepLeft ==
    [RecBase EXCEPT !.NumeroCuentaInversion = Str(<< "N", "|", "1" >>),
                    !.TipoIdentificacion = Str(<< "C" >>)]

RecSepRight ==
    [RecBase EXCEPT !.NumeroCuentaInversion = Str(<< "N" >>),
                    !.TipoIdentificacion = Str(<< "1", "|", "C" >>)]

\* The records of the input files: one loadable, one that differs from it
\* only in whitespace and emptiness, and the two kinds of rejected record.
RawRecords == { RecBase, RecSpaced, RecNoHolder, RecBigFund }

\* The records of the files of the two-run scenarios, which are about the
\* digests: the separator-bearing records replace one rejected record.
RerunRecords == { RecBase, RecSpaced, RecNoHolder, RecSepLeft, RecSepRight }

SeqsUpTo(S, n) == UNION { [1..k -> S] : k \in 0..n }

\* The files the run may be given.
Sources == SeqsUpTo(RawRecords, MaxRows)

\* The files of the scenarios in which the pipeline is run a second time.
RerunSources == SeqsUpTo(RerunRecords, MaxRerunRows)

\* Path suffixes and what Path.suffix.lower() makes of them.
Suffixes == { ".csv", ".PARQUET", ".txt", "" }

Lower(suffix) ==
    CASE suffix = ".PARQUET" -> ".parquet"
      [] OTHER -> suffix

\* Process identifiers are opaque to the program and unique to an
\* invocation: the first invocation is given "P1", the second "P2".
ProcessIds == << "P1", "P2" >>

\* --source-system: its default, and another tag.
DefaultSourceSystem == << "E", "P" >>

SourceSystems == { DefaultSourceSystem, << "X" >> }

SourceHashes == { "filehash" }

ChunkSizes == 1..MaxChunk

Metrics == [rows_read |-> 0, rows_loaded |-> 0, rows_rejected |-> 0]

InitWith(files) ==
    /\ source \in files
    /\ table = << >>
    /\ pending = << >>
    /\ pc = "idle"
    /\ run = 0
    /\ process_id = "" /\ source_hash = "" /\ source_system = << >> /\ chunk_size = 0
    /\ lazy_frame = FALSE
    /\ conn = "none"
    /\ connects = 0
    /\ offset = 0 /\ metrics = Metrics /\ chunk = << >> /\ rows = << >>
    /\ stdout = << >>
    /\ summary = << >>
    /\ error = "none"
    /\ requests = << >>
    /\ commits = 0
    /\ start = 0
    /\ hashed = {}

Init == InitWith(Sources)

InitRerun == InitWith(RerunSources)

\* Variant: an end index (offset + length) is passed where slice expects a
\* length, so later windows overlap the ones that follow them.
slice_end_as_length(frame, off, length) ==
    SubSeq(frame, off + 1,
           IF off + (off + length) < Len(frame) THEN off + (off + length) ELSE Len(frame))

\* lazy_frame.slice(offset, length).collect(): up to length records from offset.
slice(frame, off, length) ==
    SubSeq(frame, off + 1, IF off + length < Len(frame) THEN off + length ELSE Len(frame))

\* Variant: every path with a suffix is handed to a scanner.
ScannableAnySuffix(suffix) == Lower(suffix) # ""

\* The extensions scan_input_file accepts.
Scannable(suffix) == Lower(suffix) \in { ".parquet", ".csv" }

\* Leaving the "with psycopg.connect(...)" block by an exception: the open
\* transaction is rolled back and the connection closed.
Abort(exception) ==
    /\ pc' = "failed"
    /\ error' = exception
    /\ pending' = << >>
    /\ conn' = "closed"

(***************************************************************************)
(* main up to the first statements of run_etl: parse the arguments, build  *)
(* Metrics(), scan the input file.                                         *)
(***************************************************************************)
Invoke(suffix, pid, shash, system, size) ==
    /\ run' = run + 1
    /\ process_id' = pid /\ source_hash' = shash
    /\ source_system' = system /\ chunk_size' = size
    /\ metrics' = Metrics
    /\ offset' = 0 /\ chunk' = << >> /\ rows' = << >>
    /\ stdout' = << >> /\ summary' = << >>
    /\ requests' = << >> /\ commits' = 0 /\ connects' = 0
    /\ start' = Len(table)
    /\ conn' = "none"
    /\ IF Scannable(suffix)
       THEN /\ lazy_frame' = TRUE
            /\ pc' = "connect"
            /\ error' = "none"
       ELSE /\ lazy_frame' = FALSE
            /\ pc' = "failed"
            /\ error' = "ValueError"
    /\ UNCHANGED << source, table, pending, hashed >>

\* The program is started, with the default source-system tag.
Start(suffix, shash, size) ==
    /\ pc = "idle"
    /\ Invoke(suffix, ProcessIds[run + 1], shash, DefaultSourceSystem, size)

\* The program is started a second time, after a completed run, on the same
\* file and the same destination, with any source-system tag.
Rerun(suffix, shash, system, size) ==
    /\ pc = "done"
    /\ run = 1
    /\ Invoke(suffix, ProcessIds[run + 1], shash, system, size)

\* with psycopg.connect(connection_string, autocommit=False) as conn: offset = 0
Connect ==
    /\ pc = "connect"
    /\ conn' = "open"
    /\ connects' = connects + 1
    /\ offset' = 0
    /\ pc' = "read"
    /\ UNCHANGED << source, table, pending, run, args, lazy_frame, metrics, chunk,
                    rows, stdout, summary, error, requests, commits, start, hashed >>

\* psycopg.connect raises: the destination cannot be reached, no connection
\* exists and nothing has been read.
ConnectFail ==
    /\ pc = "connect"
    /\ pc' = "failed"
    /\ error' = "ConnectError"
    /\ UNCHANGED << source, table, pending, run, args, lazy_frame, conn, connects,
                    offset, metrics, chunk, rows, stdout, summary, requests, commits,
                    start, hashed >>

\* A non-empty chunk is collected: rows_read grows by its height.
ReadBatch ==
    /\ pc = "read"
    /\ LET collected == slice(source, offset, chunk_size)
       IN  /\ collected # << >>
           /\ chunk' = collected
           /\ metrics' = [metrics EXCEPT !.rows_read = @ + Len(collected)]
    /\ requests' = Append(requests, offset)
    /\ pc' = "transform"
    /\ UNCHANGED << source, table, pending, run, args, lazy_frame, conn, connects,
                    offset, rows, stdout, summary, error, commits, start, hashed >>

\* Variant: the empty chunk is reported like any other before the loop ends.
ReadEmptyReported ==
    /\ pc = "read"
    /\ slice(source, offset, chunk_size) = << >>
    /\ chunk' = << >>
    /\ requests' = Append(requests, offset)
    /\ table' = table \o pending
    /\ pending' = << >>
    /\ conn' = "closed"
    /\ stdout' = Append(stdout, metrics)
    /\ summary' = << [processId |-> process_id, sourceHash |-> source_hash,
                      rowsRead |-> metrics.rows_read,
                      rowsLoaded |-> metrics.rows_loaded,
                      rowsRejected |-> metrics.rows_rejected] >>
    /\ pc' = "done"
    /\ UNCHANGED << source, run, args, lazy_frame, connects, offset, metrics, rows,
                    error, commits, start, hashed >>

\* An empty chunk is collected: break, leave the with block (which commits
\* and closes), return the metrics, and main prints the summary.
ReadEmpty ==
    /\ pc = "read"
    /\ slice(source, offset, chunk_size) = << >>
    /\ chunk' = << >>
    /\ requests' = Append(requests, offset)
    /\ table' = table \o pending
    /\ pending' = << >>
    /\ conn' = "closed"
    /\ summary' = << [processId |-> process_id, sourceHash |-> source_hash,
                      rowsRead |-> metrics.rows_read,
                      rowsLoaded |-> metrics.rows_loaded,
                      rowsRejected |-> metrics.rows_rejected] >>
    /\ pc' = "done"
    /\ UNCHANGED << source, run, args, lazy_frame, connects, offset, metrics, rows,
                    stdout, error, commits, start, hashed >>

\* collect() raises: the source cannot be read.
ReadFail ==
    /\ pc = "read"
    /\ requests' = Append(requests, offset)
    /\ Abort("SourceReadError")
    /\ UNCHANGED << source, table, run, args, lazy_frame, connects, offset, metrics,
                    chunk, rows, stdout, summary, commits, start, hashed >>

\* transformed = transform_chunk(chunk); rows = build_copy_rows(transformed, ...)
Transform ==
    /\ pc = "transform"
    /\ LET built == build_copy_rows(transform_chunk(chunk), process_id, source_hash,
                                    source_system)
       IN  /\ rows' = built
           /\ hashed' = hashed \cup
                { [record |-> built[i].fields, source_system |-> source_system,
                   transaction_id |-> built[i].transaction_id,
                   payload_hash |-> built[i].payload_hash] : i \in 1..Len(built) }
    /\ pc' = "copy"
    /\ UNCHANGED << source, table, pending, run, args, lazy_frame, conn, connects,
                    offset, metrics, chunk, stdout, summary, error, requests,
                    commits, start >>

\* copy_to_staging(conn, rows) succeeds: nothing for an empty list, else the
\* rows are written inside the open transaction.
CopyToStaging ==
    /\ pc = "copy"
    /\ pending' = IF rows = << >> THEN pending
                  ELSE pending \o [i \in 1..Len(rows) |-> StagingRow(rows[i])]
    /\ pc' = "commit"
    /\ UNCHANGED << source, table, run, args, lazy_frame, conn, connects, offset,
                    metrics, chunk, rows, stdout, summary, error, requests,
                    commits, start, hashed >>

\* The COPY of a non-empty list fails; the exception leaves run_etl.
CopyFail ==
    /\ pc = "copy"
    /\ rows # << >>
    /\ Abort("StoreWriteError")
    /\ UNCHANGED << source, table, run, args, lazy_frame, connects, offset, metrics,
                    chunk, rows, stdout, summary, requests, commits, start, hashed >>

\* Variant: the rejected counter is advanced by the loaded rows.
AccountRejectedAsLoaded(m) ==
    [m EXCEPT !.rows_loaded = @ + Len(rows),
              !.rows_rejected = @ + Len(rows)]

\* Variant: the loaded counter is advanced by the rows read.
AccountLoadedAsRead(m) ==
    [m EXCEPT !.rows_loaded = @ + Len(chunk),
              !.rows_rejected = @ + (Len(chunk) - Len(rows))]

\* The two counter updates that precede conn.commit().
Account(m) ==
    [m EXCEPT !.rows_loaded = @ + Len(rows),
              !.rows_rejected = @ + (Len(chunk) - Len(rows))]

\* Variant: the batch is not committed; its rows stay in the open transaction.
CommitMissing ==
    /\ pc = "commit"
    /\ metrics' = [metrics EXCEPT !.rows_loaded = @ + Len(rows),
                                  !.rows_rejected = @ + (Len(chunk) - Len(rows))]
    /\ pc' = "progress"
    /\ UNCHANGED << source, table, pending, run, args, lazy_frame, conn, connects,
                    offset, chunk, rows, stdout, summary, error, requests, commits,
                    start, hashed >>

\* metrics.rows_loaded += ...; metrics.rows_rejected += ...; conn.commit()
Commit ==
    /\ pc = "commit"
    /\ metrics' = Account(metrics)
    /\ table' = table \o pending
    /\ pending' = << >>
    /\ commits' = commits + 1
    /\ pc' = "progress"
    /\ UNCHANGED << source, run, args, lazy_frame, conn, connects, offset, chunk,
                    rows, stdout, summary, error, requests, start, hashed >>

\* conn.commit() raises after the counters were updated.
CommitFail ==
    /\ pc = "commit"
    /\ metrics' = Account(metrics)
    /\ Abort("CommitError")
    /\ UNCHANGED << source, table, run, args, lazy_frame, connects, offset, chunk,
                    rows, stdout, summary, requests, commits, start, hashed >>

\* Variant: the offset advances by the height of the chunk just processed.
ProgressByHeight ==
    /\ pc = "progress"
    /\ stdout' = Append(stdout, metrics)
    /\ offset' = offset + Len(chunk)
    /\ pc' = "read"
    /\ UNCHANGED << source, table, pending, run, args, lazy_frame, conn, connects,
                    metrics, chunk, rows, summary, error, requests, commits, start,
                    hashed >>

\* print("PROGRESS ..."); offset += chunk_size
Progress ==
    /\ pc = "progress"
    /\ stdout' = Append(stdout, metrics)
    /\ offset' = offset + chunk_size
    /\ pc' = "read"
    /\ UNCHANGED << source, table, pending, run, args, lazy_frame, conn, connects,
                    metrics, chunk, rows, summary, error, requests, commits, start,
                    hashed >>

RunEtl ==
    \/ Connect
    \/ ConnectFail
    \/ ReadBatch
    \/ ReadEmpty
    \/ ReadFail
    \/ Transform
    \/ CopyToStaging
    \/ CopyFail
    \/ Commit
    \/ CommitFail
    \/ Progress

Next ==
    \/ \E suffix \in Suffixes, shash \in SourceHashes, size \in ChunkSizes :
            Start(suffix, shash, size)
    \/ RunEtl

NextRerun ==
    \/ Next
    \/ \E suffix \in Suffixes, shash \in SourceHashes, system \in SourceSystems,
          size \in ChunkSizes :
            Rerun(suffix, shash, system, size)

Spec == Init /\ [][Next]_vars

\* The steps of a started run are blocking, bounded calls of one sequential
\* loop: each of them is eventually taken unless the run has failed.
Step ==
    Connect \/ ReadBatch \/ ReadEmpty \/ Transform \/ CopyToStaging \/ Commit \/ Progress

LiveSpec == Spec /\ WF_vars(Step)

\* The scenarios with a second run over the same file.
RerunSpec == InitRerun /\ [][NextRerun]_vars

(***************************************************************************)
(* Definitions used to state the properties.                               *)
(***************************************************************************)
Ceil(n, d) == (n + d - 1) \div d

Min(a, b) == IF a < b THEN a ELSE b

Last(seq) == seq[Len(seq)]

\* All mandatory fields of a raw record are present after type coercion.
Loadable(r) == \A c \in Range(CRITICAL_COLUMNS) : ~IsNull(CastRecord(r)[c])

RECURSIVE CountLoadable(_)
CountLoadable(df) ==
    IF df = << >> THEN 0
    ELSE (IF Loadable(Head(df)) THEN 1 ELSE 0) + CountLoadable(Tail(df))

\* The records of the first k batches of the current run.
ReadSoFar(k) == SubSeq(source, 1, Min(Len(source), k * chunk_size))

\* The rows the current run has committed.
Committed == SubSeq(table, start + 1, Len(table))

\* The staging rows of a sequence of raw records, under the current arguments.
StagedFrom(df) ==
    MapRows(build_copy_rows(transform_chunk(df), process_id, source_hash, source_system),
            StagingRow)

Running == pc \in {"read", "transform", "copy", "commit", "progress"}

RECURSIVE SumSeq(_)
SumSeq(seq) == IF seq = << >> THEN 0 ELSE Head(seq) + SumSeq(Tail(seq))

\* Per-batch values of batch i (counted from 0) of the current run.
BatchRead(i) == Len(slice(source, i * chunk_size, chunk_size))

BatchLoaded(i) == CountLoadable(slice(source, i * chunk_size, chunk_size))

BatchRejected(i) ==
    Cardinality({ j \in 1..BatchRead(i) :
                    ~Loadable(slice(source, i * chunk_size, chunk_size)[j]) })

(***************************************************************************)
(* C1: whenever a batch has been fully processed (its progress line is     *)
(* out, or the run is DONE), every processed batch has                     *)
(* read = loaded + rejected, the running totals are the sums of the        *)
(* per-batch values, and read = loaded + rejected holds for the totals     *)
(* and for every progress line.                                            *)
(***************************************************************************)
C1_CountersAdditive ==
    (pc \in {"read", "done"}) =>
        LET k == Len(stdout)
        IN  /\ \A i \in 0..(k - 1) : BatchRead(i) = BatchLoaded(i) + BatchRejected(i)
            /\ metrics.rows_read = SumSeq([i \in 1..k |-> BatchRead(i - 1)])
            /\ metrics.rows_loaded = SumSeq([i \in 1..k |-> BatchLoaded(i - 1)])
            /\ metrics.rows_rejected = SumSeq([i \in 1..k |-> BatchRejected(i - 1)])
            /\ metrics.rows_read = metrics.rows_loaded + metrics.rows_rejected
            /\ \A i \in 1..k :
                    stdout[i].rows_read = stdout[i].rows_loaded + stdout[i].rows_rejected

C1_Witness ==
    /\ pc = "done"
    /\ Len(stdout) >= 2
    /\ metrics.rows_loaded > 0
    /\ metrics.rows_rejected > 0

(***************************************************************************)
(* C2: when the bulk insert of batch k fails, the run is over, batch k was *)
(* requested once, and the destination holds exactly the staging rows of   *)
(* the loadable records of batches 0..k-1, nothing of batch k or later.    *)
(***************************************************************************)
C2_CopyFailureKeepsCommitted ==
    (pc = "failed" /\ error = "StoreWriteError") =>
        /\ Committed = StagedFrom(SubSeq(source, 1, offset))
        /\ Len(Committed) = CountLoadable(SubSeq(source, 1, offset))
        /\ pending = << >>
        /\ conn = "closed"
        /\ Len(requests) = Len(stdout) + 1
        /\ \A i, j \in 1..Len(requests) : requests[i] = requests[j] => i = j
        /\ ~ENABLED RunEtl

C2_Witness ==
    /\ pc = "failed"
    /\ error = "StoreWriteError"
    /\ Len(stdout) >= 1
    /\ Len(table) >= 1
    /\ offset + Len(chunk) < Len(source)

(***************************************************************************)
(* C3: the rows built from a batch are exactly the records of the batch    *)
(* whose 10 mandatory fields are all present after coercion; the others    *)
(* are counted as rejected; every row written or committed has all         *)
(* mandatory columns non-null.                                             *)
(***************************************************************************)
C3_LoadedIffMandatoryPresent ==
    /\ (pc \in {"copy", "commit", "progress"}) =>
            /\ [i \in 1..Len(rows) |-> rows[i].fields]
                    = MapRows(MapRows(SelectSeq(chunk, Loadable), CastRecord), ParseDates)
            /\ \A i \in 1..Len(rows) : NoNullIn(rows[i].fields, CRITICAL_COLUMNS)
    /\ (pc \in {"read", "done"}) =>
            /\ metrics.rows_rejected
                    = Len(ReadSoFar(Len(stdout))) - CountLoadable(ReadSoFar(Len(stdout)))
            /\ metrics.rows_loaded = CountLoadable(ReadSoFar(Len(stdout)))
    /\ \A i \in 1..Len(table) : NoNullIn(table[i].fields, CRITICAL_COLUMNS)
    /\ \A i \in 1..Len(pending) : NoNullIn(pending[i].fields, CRITICAL_COLUMNS)

C3_Witness ==
    /\ pc = "progress"
    /\ \E i \in 1..Len(chunk) : chunk[i] = RecBigFund
    /\ \E i \in 1..Len(chunk) : chunk[i] = RecBase
    /\ Len(rows) = 1
    /\ Len(table) >= 1
    /\ metrics.rows_rejected >= 1

(***************************************************************************)
(* C4: a request at an offset at or past the end of the source gives an    *)
(* empty batch; unless the read itself fails the run goes to DONE with the *)
(* counters, the table, the commits and the progress lines untouched, and  *)
(* the summary carries the accumulated metrics.  A finished run has        *)
(* printed one progress line per non-empty batch.                          *)
(***************************************************************************)
C4_EmptyBatchStep ==
    (pc = "read" /\ offset >= Len(source) /\ pc' # "failed") =>
        /\ slice(source, offset, chunk_size) = << >>
        /\ pc' = "done"
        /\ chunk' = << >>
        /\ metrics' = metrics
        /\ table' = table
        /\ commits' = commits
        /\ stdout' = stdout
        /\ summary' = << [processId |-> process_id, sourceHash |-> source_hash,
                          rowsRead |-> metrics.rows_read,
                          rowsLoaded |-> metrics.rows_loaded,
                          rowsRejected |-> metrics.rows_rejected] >>

C4_DoneLines ==
    (pc = "done") =>
        /\ Len(stdout) = Cardinality({ i \in 1..Len(requests) : requests[i] < Len(source) })
        /\ Len(stdout) = Len(requests) - 1
        /\ Last(requests) >= Len(source)

C4_EmptyBatchEndsRun == [][C4_EmptyBatchStep]_vars /\ []C4_DoneLines

C4_Witness ==
    /\ pc = "done"
    /\ Len(stdout) = 2
    /\ Last(requests) > Len(source)
    /\ metrics.rows_read = Len(source)

(***************************************************************************)
(* C5: started on a path whose extension is neither .csv nor .parquet      *)
(* (case-insensitively), the program fails with the unsupported-format     *)
(* error before anything is read: rows_read is 0, no connection has been   *)
(* opened, nothing is written or committed, nothing is printed.            *)
(***************************************************************************)
C5_Untouched ==
    /\ metrics.rows_read = 0
    /\ lazy_frame = FALSE
    /\ conn = "none"
    /\ connects = 0
    /\ requests = << >>
    /\ commits = 0
    /\ pending = << >>
    /\ Len(table) = start
    /\ stdout = << >>
    /\ summary = << >>

C5_UnsupportedStep ==
    \A suffix \in Suffixes, shash \in SourceHashes, system \in SourceSystems,
       size \in ChunkSizes :
        (/\ Lower(suffix) \notin { ".csv", ".parquet" }
         /\ Start(suffix, shash, size) \/ Rerun(suffix, shash, system, size))
            => (pc' = "failed" /\ error' = "ValueError" /\ table' = table)

C5_UnsupportedFormatFailsFast ==
    /\ [][C5_UnsupportedStep]_vars
    /\ [](error = "ValueError" => (pc = "failed" /\ C5_Untouched /\ ~ENABLED RunEtl))

C5_Witness ==
    /\ pc = "failed"
    /\ error = "ValueError"
    /\ Len(source) >= 1

(***************************************************************************)
(* C6: a progress line is printed only when its batch is committed and no  *)
(* write is outstanding, and the rows_loaded it shows is the number of     *)
(* rows this run has committed; after a failure the last line printed      *)
(* shows exactly the counters of the persisted batches.                    *)
(***************************************************************************)
C6_ProgressStep ==
    (stdout' # stdout /\ stdout' # << >>) =>
        /\ Len(stdout') = Len(stdout) + 1
        /\ commits = Len(stdout')
        /\ pending = << >>
        /\ table' = table
        /\ Last(stdout').rows_loaded = Len(table) - start
        /\ Last(stdout').rows_read = Len(ReadSoFar(Len(stdout')))

C6_AfterFailure ==
    (pc = "failed") =>
        IF stdout = << >> THEN Len(table) = start
        ELSE /\ Last(stdout).rows_loaded = Len(table) - start
             /\ Last(stdout).rows_read = Len(ReadSoFar(Len(stdout)))
             /\ Last(stdout).rows_rejected
                    = Len(ReadSoFar(Len(stdout))) - CountLoadable(ReadSoFar(Len(stdout)))
             /\ Committed = StagedFrom(ReadSoFar(Len(stdout)))

C6_ProgressAfterCommit == [][C6_ProgressStep]_vars /\ []C6_AfterFailure

C6_Witness ==
    /\ pc = "failed"
    /\ error = "CommitError"
    /\ Len(stdout) >= 1
    /\ Last(stdout).rows_loaded >= 1
    /\ metrics.rows_loaded > Last(stdout).rows_loaded

(***************************************************************************)
(* C7: a batch is requested only when every batch requested before it is   *)
(* committed; the i-th request is at offset (i-1) * batch size; at most    *)
(* one batch is read and not yet committed; the run opens one connection   *)
(* and every batch is processed on it.                                     *)
(***************************************************************************)
C7_RequestStep ==
    (requests' # requests /\ requests' # << >>) =>
        /\ Len(requests') = Len(requests) + 1
        /\ commits = Len(requests)
        /\ pending = << >>
        /\ Last(requests') = Len(requests) * chunk_size

C7_OneInFlight ==
    /\ \A i \in 1..Len(requests) : requests[i] = (i - 1) * chunk_size
    /\ Len(requests) - commits \in {0, 1}
    /\ connects <= 1
    /\ Running => (conn = "open" /\ connects = 1)
    /\ (pc \in {"transform", "copy", "commit"}) => Len(requests) = commits + 1

C7_StrictlySequential == [][C7_RequestStep]_vars /\ []C7_OneInFlight

C7_Witness ==
    /\ pc = "transform"
    /\ Len(requests) = 2
    /\ commits = 1
    /\ chunk_size = 2
    /\ Len(chunk) < chunk_size

CanonFields(h) == [c \in ColumnSet |-> normalize_value(h.record[c])]

CanonSystem(h) == normalize_value(Str(h.source_system))

HasSeparator(text) == \E i \in 1..Len(text) : text[i] = "|"

SeparatorFree(h) ==
    /\ \A c \in ColumnSet : ~HasSeparator(CanonFields(h)[c])
    /\ ~HasSeparator(CanonSystem(h))

C10_DoneExact ==
    (pc = "done") =>
        LET k == Ceil(Len(source), chunk_size)
        IN  /\ Len(stdout) = k
            /\ commits = k
            /\ requests = [i \in 1..(k + 1) |-> (i - 1) * chunk_size]
            /\ \A j \in 1..Len(source) :
                    Cardinality({ i \in 1..Len(requests) :
                                    requests[i] < j /\ j <= requests[i] + chunk_size }) = 1
            /\ metrics.rows_read = Len(source)
            /\ metrics.rows_loaded = CountLoadable(source)
            /\ metrics.rows_rejected = Len(source) - CountLoadable(source)
            /\ Len(Committed) = CountLoadable(source)

C10_Terminates == (pc = "connect") ~> (pc \in {"done", "failed"})

C10_RunCompletes == []C10_DoneExact /\ C10_Terminates

C10_Witness ==
    /\ pc = "done"
    /\ Len(source) = 3
    /\ chunk_size = 2
    /\ ~Loadable(source[1]) /\ ~Loadable(source[2]) /\ Loadable(source[3])
    /\ Len(stdout) = 2
    /\ stdout[1].rows_loaded = 0

====
